---- MODULE Spec2Model ----
(***************************************************************************)
(* TrainableForPBT of updated_tune_pbt.ipynb: the class-API trainable that *)
(* Ray Tune drives through setup / step / save_checkpoint /                *)
(* load_checkpoint / reset_config.  The state is the attributes of each    *)
(* trainable object and the two files of each checkpoint directory.  The   *)
(* caller (the tuning library) is left free: it may call the methods of a  *)
(* constructed trainable in any order.                                     *)
(***************************************************************************)
EXTENDS Integers, Sequences, FiniteSets, TLC

\* ------------------------------------------------------------- bounds
\* step is not taken any more once current_iteration has reached MaxIter
MaxIter == 2

Trainables == {"t1", "t2"}
Dirs == {"checkpoint_000004"}

\* hyperparameter dictionaries handed to setup / reset_config
Configs ==
  { [num_leaves |-> 5, max_depth |-> 1],
    [num_leaves |-> 31, max_depth |-> 8] }

\* the pair (x_train, y_train) handed to setup: the notebook's one split
Datasets == { [x |-> "x_train", y |-> "y_train"] }

\* the mean r2 of a cross validation, in tenths: -0.3 and 1.0
ScoreTenths == {-3, 10}

\* ------------------------------------------------------------- Python values
None == [t |-> "None", v |-> 0]
PyInt(n) == [t |-> "int", v |-> n]
PyFloat(k) == [t |-> "float", v |-> k]
PyBool(b) == [t |-> "bool", v |-> b]
PyStr(s) == [t |-> "str", v |-> s]
PyDict(items) == [t |-> "dict", v |-> items]

\* ------------------------------------------------------------- the regressor
\* An estimator is its constructor parameters and its booster: the sequence
\* of training rounds it went through, <<>> while it is not fitted.
LGBMRegressor(config) == [params |-> config, booster |-> <<>>]

\* model.fit(x, y): trains a new booster from scratch
Fit(model, x, y) ==
  [params |-> model.params, booster |-> <<[x |-> x, y |-> y]>>]

\* model.fit(x, y, init_model=init): continues the booster of init
FitInit(model, x, y, init) ==
  [params |-> model.params, booster |-> Append(init.booster, [x |-> x, y |-> y])]

\* ------------------------------------------------------------- json
Digits == <<"0", "1", "2", "3", "4", "5", "6", "7", "8", "9">>

DigitValue(c) == (CHOOSE d \in 1..Len(Digits) : Digits[d] = c) - 1

RECURSIVE IntRepr(_)
IntRepr(n) ==
  IF n < 10 THEN <<Digits[n + 1]>>
  ELSE IntRepr(n \div 10) \o <<Digits[(n % 10) + 1]>>

RECURSIVE ParseDigits(_)
ParseDigits(cs) ==
  IF cs = <<>> THEN 0
  ELSE 10 * ParseDigits(SubSeq(cs, 1, Len(cs) - 1)) + DigitValue(cs[Len(cs)])

Abs(k) == IF k < 0 THEN 0 - k ELSE k

\* the text json.dumps writes for one value
JsonValue(val) ==
  CASE val.t = "None" -> <<"null">>
    [] val.t = "int" -> IntRepr(val.v)
    [] val.t = "float" ->
         (IF val.v < 0 THEN <<"-">> ELSE <<>>)
         \o IntRepr(Abs(val.v) \div 10) \o <<".">> \o IntRepr(Abs(val.v) % 10)

\* json.dumps of a dict, given as the sequence of its <<key, value>> items
RECURSIVE JsonItems(_)
JsonItems(items) ==
  IF items = <<>> THEN <<>>
  ELSE <<items[1][1], ":">> \o JsonValue(items[1][2])
       \o (IF Len(items) > 1 THEN <<",">> ELSE <<>>)
       \o JsonItems(Tail(items))

json_dumps(items) == <<"{">> \o JsonItems(items) \o <<"}">>

\* the value one json token sequence stands for
ParseValue(toks) ==
  IF toks = <<"null">> THEN None
  ELSE IF \E p \in 1..Len(toks) : toks[p] = "."
  THEN LET dot == CHOOSE p \in 1..Len(toks) : toks[p] = "."
           neg == toks[1] = "-"
           whole == ParseDigits(SubSeq(toks, IF neg THEN 2 ELSE 1, dot - 1))
           frac == ParseDigits(SubSeq(toks, dot + 1, Len(toks)))
           mag == 10 * whole + frac
       IN PyFloat(IF neg THEN 0 - mag ELSE mag)
  ELSE PyInt(ParseDigits(toks))

\* first position from p on that ends a value
ValueEnd(text, p) ==
  CHOOSE q \in p..Len(text) :
    /\ text[q] \in {",", "}"}
    /\ \A r \in p..(q - 1) : text[r] \notin {",", "}"}

\* json.loads of an object: the dict as a function from its keys
json_loads(text) ==
  LET colons == {p \in 1..Len(text) : text[p] = ":"}
      keys == {text[p - 1] : p \in colons}
  IN [k \in keys |->
        LET p == CHOOSE c \in colons : text[c - 1] = k
        IN ParseValue(SubSeq(text, p + 1, ValueEnd(text, p + 1) - 1))]

\* ------------------------------------------------------------- joblib
\* dump pickles the estimator: its class, its parameters and, when it is
\* fitted, the booster
dump(model) ==
  <<"LGBMRegressor", model.params>>
  \o (IF model.booster = <<>> THEN <<>> ELSE <<model.booster>>)

load(bytes) ==
  [params |-> bytes[2],
   booster |-> IF Len(bytes) >= 3 THEN bytes[3] ELSE <<>>]

\* ------------------------------------------------------------- state
VARIABLES
  alive,      \* the trainables that were constructed (setup has run)
  trainable,  \* trainable[i]: the attributes of object i
  files,      \* files[d]: the two files of checkpoint directory d
  last,       \* the last call: method, object, arguments, the object's
              \* attributes before it, the fit it made, its return value
  saved,      \* saved[d]: the attributes at the last save_checkpoint(d)
  reuse       \* reuse[i]: how far object i is in reset_config,
              \* load_checkpoint, step; with the checkpoint it loaded

vars == <<alive, trainable, files, last, saved, reuse>>

NoConfig == CHOOSE c \in Configs : TRUE

\* attributes of an object whose setup has not run yet
NoAttrs ==
  [current_config |-> NoConfig,
   x_train |-> "", y_train |-> "",
   model |-> LGBMRegressor(NoConfig),
   current_iteration |-> None,
   current_step_score |-> None]

NoFile == <<>>
NoFit == [kind |-> "none", init |-> <<>>]
NoSnapshot == [current_iteration |-> None, current_step_score |-> None,
               model |-> <<>>, valid |-> FALSE]
Snapshot(self) ==
  [current_iteration |-> self.current_iteration,
   current_step_score |-> self.current_step_score,
   model |-> <<self.model>>, valid |-> TRUE]

Idle == [at |-> "idle", ckpt |-> NoSnapshot]

Call(op, i, config, dir, pre, fit, ret) ==
  [op |-> op, self |-> i, config |-> config, dir |-> dir,
   pre |-> pre, fit |-> fit, ret |-> ret]

Init ==
  /\ alive = {}
  /\ trainable = [i \in Trainables |-> NoAttrs]
  /\ files = [d \in Dirs |-> [checkpoint |-> NoFile, model_joblib |-> NoFile]]
  /\ last = Call("none", "", NoConfig, "", NoAttrs, NoFit, None)
  /\ saved = [d \in Dirs |-> NoSnapshot]
  /\ reuse = [i \in Trainables |-> Idle]

\* ------------------------------------------------------------- setup
setup(config, x_train, y_train) ==
  [current_config |-> config,
   x_train |-> x_train,
   y_train |-> y_train,
   model |-> LGBMRegressor(config),
   current_iteration |-> PyInt(0),
   current_step_score |-> None]

Setup(i, config, data) ==
  /\ i \notin alive
  /\ alive' = alive \cup {i}
  /\ trainable' = [trainable EXCEPT ![i] = setup(config, data.x, data.y)]
  /\ last' = Call("setup", i, config, "", trainable[i], NoFit, None)
  /\ reuse' = [reuse EXCEPT ![i] = Idle]
  /\ UNCHANGED <<files, saved>>

\* ------------------------------------------------------------- step
\* step that looks at the iteration count before it has counted this call
step_testBeforeCount(self, score) ==
  LET first == self.current_iteration = PyInt(1)
      current_iteration == PyInt(self.current_iteration.v + 1)
      raises == ~first /\ self.model.booster = <<>>
      model == IF first THEN Fit(self.model, self.x_train, self.y_train)
               ELSE FitInit(self.model, self.x_train, self.y_train, self.model)
      current_step_score == PyFloat(score)
  IN IF raises
     THEN [attrs |-> [self EXCEPT !.current_iteration = current_iteration],
           fit |-> [kind |-> "raised", init |-> <<self.model>>],
           ret |-> None]
     ELSE [attrs |-> [self EXCEPT !.current_iteration = current_iteration,
                                  !.model = model,
                                  !.current_step_score = current_step_score],
           fit |-> IF first THEN [kind |-> "plain", init |-> <<>>]
                   ELSE [kind |-> "refit", init |-> <<self.model>>],
           ret |-> PyDict(<<"r2_score", current_step_score>>)]

\* the attributes after step, the fit it called and what it returns; a
\* refit from an estimator that was never fitted raises in fit, after the
\* iteration was counted
step(self, score) ==
  LET current_iteration == PyInt(self.current_iteration.v + 1)
      first == current_iteration = PyInt(1)
      raises == ~first /\ self.model.booster = <<>>
      model == IF first THEN Fit(self.model, self.x_train, self.y_train)
               ELSE FitInit(self.model, self.x_train, self.y_train, self.model)
      current_step_score == PyFloat(score)
  IN IF raises
     THEN [attrs |-> [self EXCEPT !.current_iteration = current_iteration],
           fit |-> [kind |-> "raised", init |-> <<self.model>>],
           ret |-> None]
     ELSE [attrs |-> [self EXCEPT !.current_iteration = current_iteration,
                                  !.model = model,
                                  !.current_step_score = current_step_score],
           fit |-> IF first THEN [kind |-> "plain", init |-> <<>>]
                   ELSE [kind |-> "refit", init |-> <<self.model>>],
           ret |-> PyDict(<<"r2_score", current_step_score>>)]

Step(i, score) ==
  /\ i \in alive
  /\ trainable[i].current_iteration.v < MaxIter
  /\ LET r == step(trainable[i], score)
     IN /\ trainable' = [trainable EXCEPT ![i] = r.attrs]
        /\ last' = Call("step", i, NoConfig, "", trainable[i], r.fit, r.ret)
  /\ reuse' = [reuse EXCEPT ![i] =
                 IF reuse[i].at = "restored"
                 THEN [at |-> "resumed", ckpt |-> reuse[i].ckpt]
                 ELSE Idle]
  /\ UNCHANGED <<alive, files, saved>>

\* ------------------------------------------------------------- checkpoints
\* save_checkpoint that writes the two numbers under each other's key
save_checkpoint_swapped(self) ==
  [checkpoint |->
     json_dumps(<< <<"current_score", self.current_iteration>>,
                   <<"current_step", self.current_step_score>> >>),
   model_joblib |-> dump(self.model)]

\* the two files save_checkpoint writes into its directory
save_checkpoint(self) ==
  [checkpoint |->
     json_dumps(<< <<"current_score", self.current_step_score>>,
                   <<"current_step", self.current_iteration>> >>),
   model_joblib |-> dump(self.model)]

SaveCheckpoint(i, d) ==
  /\ i \in alive
  /\ files' = [files EXCEPT ![d] = save_checkpoint(trainable[i])]
  /\ saved' = [saved EXCEPT ![d] = Snapshot(trainable[i])]
  /\ last' = Call("save_checkpoint", i, NoConfig, d, trainable[i], NoFit, PyStr(d))
  /\ UNCHANGED <<alive, trainable, reuse>>

\* load_checkpoint that restores the score and the model but not the count
load_checkpoint_noIteration(self, dir) ==
  LET state == json_loads(dir.checkpoint)
  IN [self EXCEPT !.current_step_score = state["current_score"],
                  !.model = load(dir.model_joblib)]

\* the attributes after load_checkpoint read the two files of a directory
load_checkpoint(self, dir) ==
  LET state == json_loads(dir.checkpoint)
  IN [self EXCEPT !.current_step_score = state["current_score"],
                  !.current_iteration = state["current_step"],
                  !.model = load(dir.model_joblib)]

\* open() raises on a directory without a checkpoint and nothing changes
LoadCheckpoint(i, d) ==
  /\ i \in alive
  /\ files[d].checkpoint # NoFile
  /\ trainable' = [trainable EXCEPT ![i] = load_checkpoint(trainable[i], files[d])]
  /\ last' = Call("load_checkpoint", i, NoConfig, d, trainable[i], NoFit, None)
  /\ reuse' = [reuse EXCEPT ![i] =
                 IF reuse[i].at = "reset"
                 THEN [at |-> "restored", ckpt |-> saved[d]]
                 ELSE Idle]
  /\ UNCHANGED <<alive, files, saved>>

\* ------------------------------------------------------------- reset_config
\* reset_config that leaves the score of the previous configuration
reset_config_keepScore(self, new_config) ==
  LET s1 == [self EXCEPT !.current_config = new_config]
      s2 == [s1 EXCEPT !.current_iteration = PyInt(0)]
      s4 == [s2 EXCEPT !.model = LGBMRegressor(s2.current_config)]
  IN [attrs |-> s4, ret |-> PyBool(TRUE)]

reset_config(self, new_config) ==
  LET s1 == [self EXCEPT !.current_config = new_config]
      s2 == [s1 EXCEPT !.current_iteration = PyInt(0)]
      s3 == [s2 EXCEPT !.current_step_score = None]
      s4 == [s3 EXCEPT !.model = LGBMRegressor(s3.current_config)]
  IN [attrs |-> s4, ret |-> PyBool(TRUE)]

ResetConfig(i, new_config) ==
  /\ i \in alive
  /\ LET r == reset_config(trainable[i], new_config)
     IN /\ trainable' = [trainable EXCEPT ![i] = r.attrs]
        /\ last' = Call("reset_config", i, new_config, "", trainable[i], NoFit, r.ret)
  /\ reuse' = [reuse EXCEPT ![i] = [at |-> "reset", ckpt |-> NoSnapshot]]
  /\ UNCHANGED <<alive, files, saved>>

\* ------------------------------------------------------------- the system
Next ==
  \/ \E i \in Trainables, c \in Configs, data \in Datasets : Setup(i, c, data)
  \/ \E i \in Trainables, score \in ScoreTenths : Step(i, score)
  \/ \E i \in Trainables, d \in Dirs : SaveCheckpoint(i, d)
  \/ \E i \in Trainables, d \in Dirs : LoadCheckpoint(i, d)
  \/ \E i \in Trainables, c \in Configs : ResetConfig(i, c)

Spec == Init /\ [][Next]_vars

\* ------------------------------------------------------------- properties
\* C1: after load_checkpoint(d), on the object that saved or on another one,
\* current_iteration, current_step_score and model are what they were when
\* save_checkpoint(d) last ran.
CheckpointRoundTrip ==
  last.op = "load_checkpoint" =>
    LET self == trainable[last.self]
        snap == saved[last.dir]
    IN /\ snap.valid
       /\ self.current_iteration = snap.current_iteration
       /\ self.current_step_score = snap.current_step_score
       /\ <<self.model>> = snap.model

\* an object that was reset to another configuration has just loaded a
\* checkpoint holding a fitted model and a negative score
RoundTripReached ==
  /\ last.op = "load_checkpoint"
  /\ last.pre.current_iteration = PyInt(0)
  /\ last.pre.current_step_score = None
  /\ saved[last.dir].current_iteration = PyInt(MaxIter)
  /\ saved[last.dir].current_step_score = PyFloat(-3)
  /\ trainable[last.self].current_config # trainable[last.self].model.params

\* C2 as stated: reset_config followed by load_checkpoint leaves
\* current_iteration at the checkpoint's saved iteration, and the step that
\* follows refits with init_model the checkpointed model, whatever the
\* checkpoint.
ReuseAlwaysRefits ==
  \A i \in Trainables :
    /\ reuse[i].at = "restored" =>
         trainable[i].current_iteration = reuse[i].ckpt.current_iteration
    /\ (reuse[i].at = "resumed" /\ last.op = "step" /\ last.self = i) =>
         last.fit = [kind |-> "refit", init |-> reuse[i].ckpt.model]

\* C2 amended: reset_config followed by load_checkpoint leaves
\* current_iteration at the checkpoint's saved iteration; the step that
\* follows refits with init_model the checkpointed model when the checkpoint
\* was saved after at least one step, and does a first-iteration fit when it
\* was saved at iteration 0.
ReuseContinuesFromCheckpoint ==
  \A i \in Trainables :
    /\ reuse[i].at = "restored" =>
         trainable[i].current_iteration = reuse[i].ckpt.current_iteration
    /\ (reuse[i].at = "resumed" /\ last.op = "step" /\ last.self = i) =>
         IF reuse[i].ckpt.current_iteration # PyInt(0)
         THEN /\ last.pre.current_iteration # PyInt(0)
              /\ last.fit = [kind |-> "refit", init |-> reuse[i].ckpt.model]
         ELSE last.fit = [kind |-> "plain", init |-> <<>>]

\* an object was reset to a configuration, loaded a checkpoint of a model
\* fitted under another one and has just stepped from it
ReuseResumed ==
  /\ last.op = "step"
  /\ reuse[last.self].at = "resumed"
  /\ last.fit.kind = "refit"
  /\ reuse[last.self].ckpt.current_iteration = PyInt(1)
  /\ trainable[last.self].current_iteration = PyInt(2)
  /\ trainable[last.self].current_config # trainable[last.self].model.params

\* C3: reset_config(new_config) leaves the object as
\* setup(new_config, x_train, y_train) with its own training data would:
\* current_config is new_config, model a fresh regressor of new_config,
\* current_iteration 0, current_step_score None; and it returns True.
ResetConfigIsSetup ==
  last.op = "reset_config" =>
    LET self == trainable[last.self]
    IN /\ self = setup(last.config, last.pre.x_train, last.pre.y_train)
       /\ self.current_config = last.config
       /\ self.model = LGBMRegressor(last.config)
       /\ self.current_iteration = PyInt(0)
       /\ self.current_step_score = None
       /\ last.ret = PyBool(TRUE)

\* reset_config has just run on an object that had trained, under another
\* configuration, up to the last iteration
ResetAfterTraining ==
  /\ last.op = "reset_config"
  /\ last.pre.current_iteration = PyInt(MaxIter)
  /\ last.pre.current_step_score # None
  /\ last.pre.current_config # last.config
  /\ last.pre.model.booster # <<>>

\* C4: step fits without init_model exactly when current_iteration is 0
\* before the call, and otherwise fits with init_model the model held before
\* the call.
FitThenRefit ==
  last.op = "step" =>
    /\ last.fit.kind = "plain" <=> last.pre.current_iteration = PyInt(0)
    /\ last.pre.current_iteration # PyInt(0) =>
         last.fit = [kind |-> "refit", init |-> <<last.pre.model>>]

\* a step has just refitted from a model that load_checkpoint brought in,
\* fitted under a configuration that is not the object's current one
RefitReached ==
  /\ last.op = "step"
  /\ last.fit.kind = "refit"
  /\ last.pre.model.params # last.pre.current_config
  /\ trainable[last.self].model.booster = Append(last.pre.model.booster,
                                                  [x |-> "x_train", y |-> "y_train"])

====
